---- MODULE Spec2Model ----
(***************************************************************************)
(* Medication reminder and adherence-confirmation state machine of the     *)
(* loveuad backend: the medication_reminders table, the scheduler tick     *)
(* (/api/alarms/check-and-call), the push worker (alarm_worker.py), the    *)
(* voice webhook (/api/twilio/twiml/medication), the self-report endpoint  *)
(* (/api/health/medication-taken), the alarm CRUD endpoints and the        *)
(* midnight reset job.                                                     *)
(*                                                                         *)
(* Times of day are minutes since midnight (09:00 = 540).  A text is a     *)
(* sequence of one-character strings, so that substring and token matching *)
(* are computed as Python computes them.                                   *)
(***************************************************************************)
EXTENDS Integers, Sequences, FiniteSets, TLC

\* ---------------------------------------------------------------- bounds
MaxRows == 2
MaxLog == 2
MaxCount == 2

\* ------------------------------------------------------ program constants
MinutesPerDay == 1440
FollowupOffset == 10
AdherenceWindow == 270
RetryLimit == 2
FollowupVoiceWindow == 100
FollowupDelay == 10
FollowupSlack == 1

\* ------------------------------------------------------------ input sets
Patients == {"p1", "p2"}
Meds == {"m1", "m2"}
Times == {540, 550, 1435}
SubIds == {1, 2}
PushOutcomes == {"ok", "gone", "error"}

NULL == "NULL"
NoCall == [retry |-> 0 - 1]
NoStamp == <<>>
NoAnswer == [understood |-> "none", asked |-> FALSE]

\* phoneNumber stored in the patient's profile ('' when never entered)
PhoneNumber == [p \in Patients |-> IF p = "p1" THEN "+15550100" ELSE ""]

\* ------------------------------------------------------------------ texts
yes_words ==
  << <<"y", "e", "s">>,
     <<"y", "e", "p">>,
     <<"y", "e", "a", "h">>,
     <<"y", "a", "h">>,
     <<"c", "o", "r", "r", "e", "c", "t">>,
     <<"r", "i", "g", "h", "t">>,
     <<"s", "u", "r", "e">>,
     <<"o", "k", "a", "y">>,
     <<"o", "k">>,
     <<"a", "f", "f", "i", "r", "m", "a", "t", "i", "v", "e">>,
     <<"a", "b", "s", "o", "l", "u", "t", "e", "l", "y">>,
     <<"i", "n", "d", "e", "e", "d">>,
     <<"d", "e", "f", "i", "n", "i", "t", "e", "l", "y">>,
     <<"c", "e", "r", "t", "a", "i", "n", "l", "y">>,
     <<"i", " ", "d", "i", "d">>,
     <<"i", " ", "h", "a", "v", "e">>,
     <<"t", "a", "k", "e", "n">>,
     <<"d", "o", "n", "e">>,
     <<"f", "i", "n", "i", "s", "h", "e", "d">>,
     <<"t", "o", "o", "k">> >>

no_words ==
  << <<"n", "o">>,
     <<"n", "o", "p", "e">>,
     <<"n", "o", "t">>,
     <<"h", "a", "v", "e", "n", "'", "t">>,
     <<"d", "i", "d", "n", "'", "t">>,
     <<"f", "o", "r", "g", "o", "t">> >>

yes_keywords ==
  << <<"y", "e", "s">>,
     <<"y", "e", "a", "h">>,
     <<"y", "e", "p">>,
     <<"i", " ", "t", "o", "o", "k", " ", "i", "t">>,
     <<"t", "a", "k", "e", "n">>,
     <<"i", " ", "h", "a", "v", "e">>,
     <<"a", "l", "r", "e", "a", "d", "y", " ", "t", "o", "o", "k">>,
     <<"d", "o", "n", "e">> >>

no_keywords ==
  << <<"n", "o">>,
     <<"n", "o", "t", " ", "y", "e", "t">>,
     <<"h", "a", "v", "e", "n", "'", "t">>,
     <<"d", "i", "d", "n", "'", "t", " ", "t", "a", "k", "e">>,
     <<"f", "o", "r", "g", "o", "t">>,
     <<"l", "a", "t", "e", "r">> >>

SayYes == <<"Y", "e", "s">>
SayNo == <<"n", "o">>
SayMaybe == <<"m", "a", "y", "b", "e">>
SayNotTaken ==
  <<"i", " ", "h", "a", "v", "e", " ", "n", "o", "t", " ", "t", "a", "k", "e", "n", " ", "i", "t">>

Utterances == {SayYes, SayNo, SayMaybe, SayNotTaken}

SayYeahTookIt ==
  <<"Y", "e", "a", "h", " ", "I", " ", "a", "l", "r", "e", "a", "d", "y", " ",
    "t", "o", "o", "k", " ", "i", "t">>
SayNotYet == <<"N", "o", "t", " ", "y", "e", "t">>
SayThinkSo ==
  <<"h", "m", "m", " ", "i", " ", "t", "h", "i", "n", "k", " ", "s", "o", " ",
    "m", "a", "y", "b", "e">>
SayKnow == <<"i", " ", "k", "n", "o", "w">>
Silence == <<>>

\* what a callee may say; Silence is a SpeechResult that is missing or empty
Spoken ==
  Utterances \cup {SayYeahTookIt, SayNotYet, SayThinkSo, SayKnow, Silence}

\* the three answers the prompt of understand_response allows
Labels == {<<"y", "e", "s">>, <<"n", "o">>, <<"u", "n", "c", "l", "e", "a", "r">>}

\* result.text of Gemini: a label, a label in other case or with white
\* space around it, other text, nothing
LlmTexts ==
  Labels \cup
  { <<"Y", "e", "s">>,
    <<" ", "n", "o", "\n">>,
    <<"y", "e", "s", ",", " ", "t", "a", "k", "e", "n">>,
    <<"m", "a", "y", "b", "e">>,
    <<>> }

\* no gemini_model, generate_content raises, or it returns a text
LlmReplies ==
  {[kind |-> "absent", text |-> <<>>], [kind |-> "error", text |-> <<>>]}
  \cup {[kind |-> "text", text |-> t] : t \in LlmTexts}

\* str.lower() on the letters the utterances use
LowerChar(c) ==
  CASE c = "Y" -> "y"
    [] c = "N" -> "n"
    [] c = "I" -> "i"
    [] OTHER -> c

Lower(s) == [i \in 1..Len(s) |-> LowerChar(s[i])]

\* Python's  w in s  on strings
Contains(s, w) ==
  \E i \in 1..(Len(s) - Len(w) + 1) : SubSeq(s, i, i + Len(w) - 1) = w

\* str.split(): the maximal runs of non-blank characters
RECURSIVE SplitFrom(_, _, _)
SplitFrom(s, i, cur) ==
  IF i > Len(s)
  THEN IF cur = <<>> THEN <<>> ELSE <<cur>>
  ELSE IF s[i] = " "
       THEN (IF cur = <<>> THEN <<>> ELSE <<cur>>) \o SplitFrom(s, i + 1, <<>>)
       ELSE SplitFrom(s, i + 1, Append(cur, s[i]))

Split(s) == SplitFrom(s, 1, <<>>)

AnyContained(words, s) == \E k \in 1..Len(words) : Contains(s, words[k])

AnyToken(words, s) ==
  \E k \in 1..Len(words) : \E j \in 1..Len(Split(s)) : Split(s)[j] = words[k]

\* variant: the SpeechResult is matched without .lower()
TwimlUnderstandCaseSensitive(speech) ==
  IF AnyContained(yes_words, speech) THEN "yes"
  ELSE IF AnyToken(no_words, speech) THEN "no"
  ELSE "unclear"

\* the classification medication_twiml applies to a non-empty SpeechResult
TwimlUnderstand(speech) ==
  LET speech_result == Lower(speech)
  IN  IF AnyContained(yes_words, speech_result) THEN "yes"
      ELSE IF AnyToken(no_words, speech_result) THEN "no"
      ELSE "unclear"

\* str.strip(): white space removed at both ends
IsSpace(c) == c = " " \/ c = "\n"

RECURSIVE LStrip(_)
LStrip(s) == IF s # <<>> /\ IsSpace(Head(s)) THEN LStrip(Tail(s)) ELSE s

RECURSIVE RStrip(_)
RStrip(s) ==
  IF s # <<>> /\ IsSpace(s[Len(s)]) THEN RStrip(SubSeq(s, 1, Len(s) - 1)) ELSE s

Strip(s) == RStrip(LStrip(s))

\* the name of a label text
LabelOf(text) ==
  CASE text = <<"y", "e", "s">> -> "yes"
    [] text = <<"n", "o">> -> "no"
    [] OTHER -> "unclear"

\* variant: the answer of Gemini is accepted when it contains a label
LlmAnswerLoose(reply) ==
  IF reply.kind # "text" THEN "unclear"
  ELSE IF Contains(Lower(Strip(reply.text)), <<"y", "e", "s">>) THEN "yes"
  ELSE IF Contains(Lower(Strip(reply.text)), <<"n", "o">>) THEN "no"
  ELSE "unclear"

\* the Gemini tier of understand_response:  result.text.strip().lower()
\* is returned when it is one of the three labels
LlmAnswer(reply) ==
  IF reply.kind = "text" /\ Lower(Strip(reply.text)) \in Labels
  THEN LabelOf(Lower(Strip(reply.text)))
  ELSE "unclear"

\* variant: the negative keywords are tried first
UnderstandNoFirst(speech_text, reply) ==
  LET speech_lower == Strip(Lower(speech_text))
  IN  IF speech_text = <<>> THEN [understood |-> "unclear", asked |-> FALSE]
      ELSE IF AnyContained(no_keywords, speech_lower)
           THEN [understood |-> "no", asked |-> FALSE]
      ELSE IF AnyContained(yes_keywords, speech_lower)
           THEN [understood |-> "yes", asked |-> FALSE]
      ELSE [understood |-> LlmAnswer(reply), asked |-> reply.kind # "absent"]

\* understand_response of twilio_voice.py: the label, and whether
\* generate_content was called
understand_response(speech_text, reply) ==
  LET speech_lower == Strip(Lower(speech_text))
  IN  IF speech_text = <<>> THEN [understood |-> "unclear", asked |-> FALSE]
      ELSE IF AnyContained(yes_keywords, speech_lower)
           THEN [understood |-> "yes", asked |-> FALSE]
      ELSE IF AnyContained(no_keywords, speech_lower)
           THEN [understood |-> "no", asked |-> FALSE]
      ELSE [understood |-> LlmAnswer(reply), asked |-> reply.kind # "absent"]

\* understand_response tabulated over what the model lets a callee say and
\* Gemini answer
Understood ==
  [speech \in Spoken |-> [reply \in LlmReplies |-> understand_response(speech, reply)]]

\* -------------------------------------------------------------- time of day
\* strptime('%H:%M') + timedelta(minutes=10), then strftime('%H:%M')
FollowupOf(time) == (time + FollowupOffset) % MinutesPerDay

ClockPoints == {0} \cup Times \cup {FollowupOf(t) : t \in Times}

\* -------------------------------------------------------------------- state
VARIABLES
  rows,           \* medication_reminders (committed): id -> row
  nextId,         \* the SERIAL sequence of medication_reminders.id
  now,            \* wall clock, minute of the day
  resetDue,       \* the 00:00 cron job has not run yet for this day
  adherence,      \* patient -> medicationAdherence list of the profile
  subs,           \* push_subscriptions: id -> [code_hash, active]
  calls,          \* follow-up calls in progress, by the alarm they are about
  ticks,          \* invocations of check_and_call_alarms in progress
  reminderCalls,  \* reminder calls placed for a row since the last reset
  followupCalls,  \* follow-up calls placed for a row since the last reset
  pushes,         \* reminder pushes sent for a row since the last reset
  interp,         \* what understand_response returned last, and whether it asked Gemini
  logged,         \* adherence records written per patient (bounded by MaxLog)
  reports,        \* invocations of record_medication_taken between their read and their write
  taken,          \* medication_taken rows of today: <<code_hash, medication_name>>
  cronRan         \* the once-a-minute job has called /api/alarms/followup in this minute

vars ==
  <<rows, nextId, now, resetDue, adherence, subs, calls, ticks,
    reminderCalls, followupCalls, pushes, interp, logged, reports, taken,
    cronRan>>

aux == <<interp, logged, reports, taken, cronRan>>

counters == <<reminderCalls, followupCalls, pushes>>

RowIds == 1..MaxRows

Ticks == {"t1", "t2"}

Reqs == {"r1", "r2"}

Statuses == {"PENDING", "REMINDED", "FOLLOWUP", "TAKEN"}

Bump(n) == IF n < MaxCount THEN n + 1 ELSE n

IdleTick ==
  [pc |-> "idle", current_time |-> 0, reminder_alarms |-> <<>>,
   followup_alarms |-> <<>>, writes |-> <<>>, called |-> <<>>, store |-> "up"]

\* rows a transaction in progress has updated and not committed: a second
\* writer waits for the row lock
Locked(ids) == \E t \in Ticks : DOMAIN ticks[t].writes \cap ids # {}

NewRow(code_hash, medication_name, time, phone_number) ==
  [code_hash |-> code_hash,
   medication_name |-> medication_name,
   time |-> time,
   followup_time |-> FollowupOf(time),
   phone_number |-> phone_number,
   active |-> TRUE,
   last_called |-> NoStamp,
   daily_status |-> "PENDING"]

\* a table as POST /api/alarms leaves it: one dose of p1 at 09:00, one at 09:10
ScheduledRows ==
  (1 :> NewRow("p1", "m1", 540, PhoneNumber["p1"])) @@
  (2 :> NewRow("p1", "m1", 550, PhoneNumber["p1"]))

InitWith(table) ==
  /\ rows = table
  /\ nextId = Cardinality(DOMAIN table) + 1
  /\ now = 0
  /\ resetDue = FALSE
  /\ adherence = [p \in Patients |-> <<>>]
  /\ subs = [s \in SubIds |-> [code_hash |-> "p1", active |-> TRUE]]
  /\ calls = [id \in RowIds |-> NoCall]
  /\ ticks = [t \in Ticks |-> IdleTick]
  /\ reminderCalls = [id \in RowIds |-> 0]
  /\ followupCalls = [id \in RowIds |-> 0]
  /\ pushes = [id \in RowIds |-> 0]
  /\ interp = NoAnswer
  /\ logged = [p \in Patients |-> 0]
  /\ reports = [r \in Reqs |-> <<>>]
  /\ taken = {}
  /\ cronRan = FALSE

Init == InitWith(ScheduledRows)

\* ------------------------------------------------------------------ clock
\* at midnight no row of medication_taken has DATE(taken_at) = CURRENT_DATE
AdvanceClock ==
  /\ ~resetDue
  /\ \/ /\ \E t \in ClockPoints : t > now /\ now' = t
        /\ UNCHANGED <<resetDue, taken>>
     \/ /\ now' = 0
        /\ resetDue' = TRUE
        /\ taken' = {}
  /\ cronRan' = FALSE
  /\ UNCHANGED <<rows, nextId, adherence, subs, calls, ticks, counters,
                 interp, logged, reports>>

\* variant: the reset skips inactive rows
ResetStatusActiveOnly(rs) ==
  [id \in DOMAIN rs |->
     IF rs[id].active THEN [rs[id] EXCEPT !.daily_status = "PENDING"] ELSE rs[id]]

\* the UPDATE of reset_daily_reminders
ResetStatus(rs) == [id \in DOMAIN rs |-> [rs[id] EXCEPT !.daily_status = "PENDING"]]

\* reset_daily_reminders, run by the cron job at 00:00
ResetDaily ==
  /\ resetDue
  /\ now = 0
  /\ ~Locked(DOMAIN rows)
  /\ rows' = ResetStatus(rows)
  /\ resetDue' = FALSE
  /\ reminderCalls' = [id \in RowIds |-> 0]
  /\ followupCalls' = [id \in RowIds |-> 0]
  /\ pushes' = [id \in RowIds |-> 0]
  /\ UNCHANGED <<nextId, now, adherence, subs, calls, ticks, aux>>

\* ------------------------------------------------------- alarm CRUD routes
\* POST /api/alarms
AddAlarm ==
  \E code_hash \in Patients, medication_name \in Meds, time \in Times :
    /\ nextId <= MaxRows
    /\ rows' = (nextId :> NewRow(code_hash, medication_name, time, PhoneNumber[code_hash])) @@ rows
    /\ nextId' = nextId + 1
    /\ UNCHANGED <<now, resetDue, adherence, subs, calls, ticks, counters, aux>>

\* a key of a JSON request body: absent (<<>>) or present with a value (<<v>>)
Opt(S) == {<<>>} \cup {<<v>> : v \in S}

\* PUT /api/alarms/<id>: only the keys present in the request are written
UpdateRow(row, medication_name, time, active) ==
  [row EXCEPT !.medication_name = IF medication_name # <<>> THEN medication_name[1] ELSE @,
              !.time = IF time # <<>> THEN time[1] ELSE @,
              !.active = IF active # <<>> THEN active[1] ELSE @]

UpdateAlarmReq(alarm_id, medication_name, time, active) ==
  /\ medication_name # <<>> \/ time # <<>> \/ active # <<>>
  /\ alarm_id \in DOMAIN rows
  /\ ~Locked({alarm_id})
  /\ rows' = [rows EXCEPT ![alarm_id] = UpdateRow(@, medication_name, time, active)]
  /\ UNCHANGED <<nextId, now, resetDue, adherence, subs, calls, ticks, counters, aux>>

\* any request body
UpdateAlarm ==
  \E alarm_id \in RowIds, medication_name \in Opt(Meds), time \in Opt(Times),
     active \in Opt(BOOLEAN) :
    UpdateAlarmReq(alarm_id, medication_name, time, active)

\* the request {"time": t}
RescheduleAlarm ==
  \E alarm_id \in RowIds, time \in Times :
    UpdateAlarmReq(alarm_id, <<>>, <<time>>, <<>>)

\* the request {"active": a}
SetAlarmActive ==
  \E alarm_id \in RowIds, active \in BOOLEAN :
    UpdateAlarmReq(alarm_id, <<>>, <<>>, <<active>>)

\* DELETE /api/alarms/<id>
DeleteAlarm ==
  \E alarm_id \in DOMAIN rows :
    /\ ~Locked({alarm_id})
    /\ rows' = [id \in DOMAIN rows \ {alarm_id} |-> rows[id]]
    /\ UNCHANGED <<nextId, now, resetDue, adherence, subs, calls, ticks, counters, aux>>

\* the INSERT loop shared by /api/medications/update and /medications/schedule:
\* one new row per entry of times, in order
RECURSIVE InsertTimes(_, _, _, _, _)
InsertTimes(rs, id, code_hash, name, times) ==
  IF times = <<>> THEN rs
  ELSE InsertTimes((id :> NewRow(code_hash, name, Head(times), PhoneNumber[code_hash])) @@ rs,
                   id + 1, code_hash, name, Tail(times))

TimeLists == {<<>>} \cup {<<t>> : t \in Times} \cup {<<t, u>> : t, u \in Times}

\* POST /api/medications/update
UpdateMedication ==
  \E code_hash \in Patients, name \in Meds, times \in TimeLists :
    LET gone == {id \in DOMAIN rows :
                   rows[id].code_hash = code_hash /\ rows[id].medication_name = name}
    IN  /\ nextId + Len(times) - 1 <= MaxRows
        /\ ~Locked(gone)
        /\ rows' = InsertTimes([id \in DOMAIN rows \ gone |-> rows[id]],
                               nextId, code_hash, name, times)
        /\ nextId' = nextId + Len(times)
        /\ UNCHANGED <<now, resetDue, adherence, subs, calls, ticks, counters, aux>>

\* POST /api/medications/schedule with one medication: the table has no unique
\* constraint besides the id, so ON CONFLICT DO NOTHING never skips a row
ScheduleMedications ==
  \E code_hash \in Patients, name \in Meds, times \in TimeLists :
    /\ nextId + Len(times) - 1 <= MaxRows
    /\ rows' = InsertTimes(rows, nextId, code_hash, name, times)
    /\ nextId' = nextId + Len(times)
    /\ UNCHANGED <<now, resetDue, adherence, subs, calls, ticks, counters, aux>>

\* the UPDATE of deactivate_all_alarms:  SET active = true WHERE code_hash = %s
DeactivateAll(rs, code_hash) ==
  [id \in DOMAIN rs |->
     IF rs[id].code_hash = code_hash THEN [rs[id] EXCEPT !.active = TRUE] ELSE rs[id]]

\* POST /api/alarms/deactivate-all
DeactivateAllAlarmsFor(code_hash) ==
  /\ ~Locked({id \in DOMAIN rows : rows[id].code_hash = code_hash})
  /\ rows' = DeactivateAll(rows, code_hash)
  /\ UNCHANGED <<nextId, now, resetDue, adherence, subs, calls, ticks, counters, aux>>

DeactivateAllAlarms == \E code_hash \in Patients : DeactivateAllAlarmsFor(code_hash)

\* variant: the DELETE matches on the patient only
DeletedAlarmsOfPatient(rs, code_hash, medication_name) ==
  {id \in DOMAIN rs : rs[id].code_hash = code_hash}

\* the rows the first DELETE of delete_medication matches
DeletedAlarms(rs, code_hash, medication_name) ==
  {id \in DOMAIN rs :
     rs[id].code_hash = code_hash /\ rs[id].medication_name = medication_name}

\* POST /api/medications/delete (its second DELETE is on the medications
\* table, which holds no reminder state)
DeleteMedicationFor(code_hash, medication_name) ==
  LET gone == DeletedAlarms(rows, code_hash, medication_name)
  IN  /\ ~Locked(gone)
      /\ rows' = [id \in DOMAIN rows \ gone |-> rows[id]]
      /\ UNCHANGED <<nextId, now, resetDue, adherence, subs, calls, ticks, counters, aux>>

DeleteMedication ==
  \E code_hash \in Patients, medication_name \in Meds :
    DeleteMedicationFor(code_hash, medication_name)

\* ------------------------------------------------------------ push delivery
ActiveSubs(code_hash) ==
  {s \in DOMAIN subs : subs[s].code_hash = code_hash /\ subs[s].active}

\* check_and_call_alarms sends inside one try block: the first webpush that
\* raises ends the loop.  TRUE when some subscription received the message.
TickPushDelivered(code_hash, out) ==
  \E s \in ActiveSubs(code_hash) :
    \A q \in ActiveSubs(code_hash) : q <= s => out[q] = "ok"

\* ----------------------------------------------------------- scheduler tick
\* variant: CHECK 1 gated on "not yet taken" instead of PENDING
ReminderAlarmsNotTaken(rs, current_time) ==
  {id \in DOMAIN rs :
     /\ rs[id].active
     /\ rs[id].time = current_time
     /\ rs[id].phone_number # NULL
     /\ rs[id].phone_number # ""
     /\ rs[id].daily_status # "TAKEN"}

\* variant: CHECK 1 without the active flag
ReminderAlarmsAnyActive(rs, current_time) ==
  {id \in DOMAIN rs :
     /\ rs[id].time = current_time
     /\ rs[id].phone_number # NULL
     /\ rs[id].phone_number # ""
     /\ rs[id].daily_status = "PENDING"}

\* variant: CHECK 1 catches up on doses whose minute has passed
ReminderAlarmsCatchUp(rs, current_time) ==
  {id \in DOMAIN rs :
     /\ rs[id].active
     /\ rs[id].time <= current_time
     /\ rs[id].phone_number # NULL
     /\ rs[id].phone_number # ""
     /\ rs[id].daily_status = "PENDING"}

\* CHECK 1 of check_and_call_alarms
ReminderAlarms(rs, current_time) ==
  {id \in DOMAIN rs :
     /\ rs[id].active
     /\ rs[id].time = current_time
     /\ rs[id].phone_number # NULL
     /\ rs[id].phone_number # ""
     /\ rs[id].daily_status = "PENDING"}

\* variant: CHECK 2 gated on "not yet taken" instead of REMINDED
FollowupAlarmsNotTaken(rs, current_time) ==
  {id \in DOMAIN rs :
     /\ rs[id].active
     /\ rs[id].followup_time = current_time
     /\ rs[id].phone_number # NULL
     /\ rs[id].phone_number # ""
     /\ rs[id].daily_status # "TAKEN"}

\* CHECK 2 of check_and_call_alarms
FollowupAlarms(rs, current_time) ==
  {id \in DOMAIN rs :
     /\ rs[id].active
     /\ rs[id].followup_time = current_time
     /\ rs[id].phone_number # NULL
     /\ rs[id].phone_number # ""
     /\ rs[id].daily_status = "REMINDED"}

\* the UPDATE after a placed reminder call
MarkReminded(row, stamp) ==
  [row EXCEPT !.last_called = <<stamp>>, !.daily_status = "REMINDED"]

\* the UPDATE after a placed follow-up call
MarkFollowup(row) == [row EXCEPT !.daily_status = "FOLLOWUP"]

\* the follow-up call and the query string of its TwiML url
FollowupCall(code_hash, med_name, current_time) ==
  [codeHash |-> code_hash,
   medication |-> med_name,
   time |-> current_time,
   retry |-> 0]

\* variant: the push goes out for every due alarm, before the call
PushedAnyDue(due, called) == due

\* the alarms whose push is attempted: the push code follows
\* client.calls.create inside the branch that needs the Twilio variables
Pushed(due, called) == called

\* GET|POST /api/alarms/check-and-call, one whole invocation.
\* configured: the three TWILIO_* variables are set; placed: the alarms for
\* which client.calls.create returns; out: what webpush does per subscription.
CheckAndCallAlarmsWith(configured, placed, out) ==
    LET reminder_alarms == ReminderAlarms(rows, now)
        followup_alarms == FollowupAlarms(rows, now)
        reminded == IF configured THEN reminder_alarms \cap placed ELSE {}
        followed == IF configured THEN followup_alarms \cap placed ELSE {}
    IN  /\ \A t \in Ticks : ticks[t].pc = "idle"
        /\ placed \subseteq reminder_alarms \cup followup_alarms
        /\ rows' = [id \in DOMAIN rows |->
                      IF id \in reminded THEN MarkReminded(rows[id], now)
                      ELSE IF id \in followed THEN MarkFollowup(rows[id])
                      ELSE rows[id]]
        /\ reminderCalls' = [id \in RowIds |->
                      IF id \in reminded THEN Bump(reminderCalls[id]) ELSE reminderCalls[id]]
        /\ followupCalls' = [id \in RowIds |->
                      IF id \in followed THEN Bump(followupCalls[id]) ELSE followupCalls[id]]
        /\ pushes' = [id \in RowIds |->
                      IF /\ id \in Pushed(reminder_alarms, reminded)
                         /\ TickPushDelivered(rows[id].code_hash, out)
                      THEN Bump(pushes[id]) ELSE pushes[id]]
        /\ calls' = [id \in RowIds |->
                      IF id \in followed
                      THEN FollowupCall(rows[id].code_hash, rows[id].medication_name, now)
                      ELSE calls[id]]
        /\ UNCHANGED <<nextId, now, resetDue, adherence, subs, ticks, aux>>

CheckAndCallAlarms ==
  \E configured \in BOOLEAN, placed \in SUBSET (DOMAIN rows),
     out \in [SubIds -> PushOutcomes] :
    CheckAndCallAlarmsWith(configured, placed, out)

\* ------------------------------------------- the tick, statement by statement
\* fetchall() of the two SELECTs, in id order, with the columns selected
RECURSIVE Fetch(_, _)
Fetch(rs, ids) ==
  IF ids = {} THEN <<>>
  ELSE LET id == CHOOSE i \in ids : \A j \in ids : i <= j
       IN  <<[id |-> id,
              code_hash |-> rs[id].code_hash,
              medication_name |-> rs[id].medication_name,
              phone_number |-> rs[id].phone_number]>> \o Fetch(rs, ids \ {id})

LockedByOther(t, ids) ==
  \E u \in Ticks \ {t} : DOMAIN ticks[u].writes \cap ids # {}

\* now = datetime.now() and the two SELECTs
TickScan(t) ==
  /\ ticks[t].pc = "idle"
  /\ ticks' = [ticks EXCEPT ![t] =
       [pc |-> "run",
        current_time |-> now,
        reminder_alarms |-> Fetch(rows, ReminderAlarms(rows, now)),
        followup_alarms |-> Fetch(rows, FollowupAlarms(rows, now)),
        writes |-> <<>>,
        called |-> <<>>,
        store |-> "up"]]
  /\ UNCHANGED <<rows, nextId, now, resetDue, adherence, subs, calls, counters, aux>>

\* variant: a call that fails ends the for loop
RestUntilFailure(alarms, done) == IF done THEN Tail(alarms) ELSE <<>>

\* what a for loop still has to visit after one pass: the try/except is
\* inside the loop, so a pass that raises goes on with the next alarm
Rest(alarms, done) == Tail(alarms)

\* one pass of the first for loop: call, push, UPDATE ... WHERE id = alarm_id.
\* Once the store has failed, every statement of the pass that uses the cursor
\* raises: the call is placed, the push and the UPDATE are not.
TickReminder(t) ==
  \E configured, placed \in BOOLEAN, out \in [SubIds -> PushOutcomes] :
    LET tick == ticks[t]
        alarm == Head(tick.reminder_alarms)
        done == configured /\ placed
        hit == done /\ tick.store = "up" /\ alarm.id \in DOMAIN rows
    IN  /\ tick.pc = "run"
        /\ tick.reminder_alarms # <<>>
        /\ hit => ~LockedByOther(t, {alarm.id})
        /\ ticks' = [ticks EXCEPT ![t].reminder_alarms = Rest(@, done),
                                  ![t].writes = IF hit THEN (alarm.id :> "REMINDED") @@ @ ELSE @,
                                  ![t].called = IF done THEN (alarm.id :> "REMINDED") @@ @ ELSE @]
        /\ reminderCalls' = [reminderCalls EXCEPT ![alarm.id] = IF done THEN Bump(@) ELSE @]
        /\ pushes' = [pushes EXCEPT ![alarm.id] =
                        IF done /\ tick.store = "up" /\ TickPushDelivered(alarm.code_hash, out)
                        THEN Bump(@) ELSE @]
        /\ UNCHANGED <<rows, nextId, now, resetDue, adherence, subs, calls, followupCalls, aux>>

\* one pass of the second for loop
TickFollowup(t) ==
  \E configured, placed \in BOOLEAN :
    LET tick == ticks[t]
        alarm == Head(tick.followup_alarms)
        done == configured /\ placed
        hit == done /\ tick.store = "up" /\ alarm.id \in DOMAIN rows
    IN  /\ tick.pc = "run"
        /\ tick.reminder_alarms = <<>>
        /\ tick.followup_alarms # <<>>
        /\ hit => ~LockedByOther(t, {alarm.id})
        /\ ticks' = [ticks EXCEPT ![t].followup_alarms = Rest(@, done),
                                  ![t].writes = IF hit THEN (alarm.id :> "FOLLOWUP") @@ @ ELSE @,
                                  ![t].called = IF done THEN (alarm.id :> "FOLLOWUP") @@ @ ELSE @]
        /\ followupCalls' = [followupCalls EXCEPT ![alarm.id] = IF done THEN Bump(@) ELSE @]
        /\ calls' = [calls EXCEPT ![alarm.id] =
                       IF done
                       THEN FollowupCall(alarm.code_hash, alarm.medication_name, tick.current_time)
                       ELSE @]
        /\ UNCHANGED <<rows, nextId, now, resetDue, adherence, subs, reminderCalls, pushes, aux>>

\* the store fails while the invocation runs (connection lost, statement
\* error): the transaction and its UPDATEs are gone, and every later
\* statement on the cursor raises
TickStoreFails(t) ==
  /\ ticks[t].pc = "run"
  /\ ticks[t].store = "up"
  /\ ticks' = [ticks EXCEPT ![t].store = "down", ![t].writes = <<>>]
  /\ UNCHANGED <<rows, nextId, now, resetDue, adherence, subs, calls, counters, aux>>

\* conn.commit(): the UPDATEs of this invocation become visible; on a failed
\* store it raises, the outer except answers 500 and nothing is written
TickCommit(t) ==
  LET tick == ticks[t]
  IN  /\ tick.pc = "run"
      /\ tick.reminder_alarms = <<>>
      /\ tick.followup_alarms = <<>>
      /\ rows' = [id \in DOMAIN rows |->
                    IF id \notin DOMAIN tick.writes THEN rows[id]
                    ELSE IF tick.writes[id] = "REMINDED"
                         THEN MarkReminded(rows[id], tick.current_time)
                         ELSE MarkFollowup(rows[id])]
      /\ ticks' = [ticks EXCEPT ![t] = IdleTick]
      /\ UNCHANGED <<nextId, now, resetDue, adherence, subs, calls, counters, aux>>

\* ------------------------------------------------ POST /api/alarms/followup
\* the wall clock of one day, minute by minute
AdvanceMinute ==
  /\ ~resetDue
  /\ now + 1 < MinutesPerDay
  /\ now' = now + 1
  /\ cronRan' = FALSE
  /\ UNCHANGED <<rows, nextId, resetDue, adherence, subs, calls, ticks, counters,
                 interp, logged, reports, taken>>

\* how the second of the minute at which followup_call runs compares with
\* the second of the minute at which last_called was written
Phases == {"before", "same", "after"}

\* last_called BETWEEN ten_mins_ago - 1 minute AND ten_mins_ago + 1 minute,
\* both ends included, on timestamps that carry seconds
InFollowupWindow(stamp, current_time, phase) ==
  /\ stamp # NoStamp
  /\ LET age == current_time - stamp[1]
     IN  \/ age = FollowupDelay
         \/ age = FollowupDelay - FollowupSlack /\ phase \in {"same", "after"}
         \/ age = FollowupDelay + FollowupSlack /\ phase \in {"same", "before"}

\* the SELECT of followup_call
FollowupDue(rs, current_time, phase) ==
  {id \in DOMAIN rs :
     /\ rs[id].active
     /\ InFollowupWindow(rs[id].last_called, current_time, phase)
     /\ <<rs[id].code_hash, rs[id].medication_name>> \notin taken}

\* GET|POST /api/alarms/followup as the scheduler invokes it, once in a
\* minute, one whole invocation: a call per selected alarm, and no UPDATE.
\* (A SELECT that raises answers 500 and places no call, as an invocation
\* without the Twilio variables does.)
followup_call_with(configured, placed, phase) ==
    LET alarms == FollowupDue(rows, now, phase)
        called == IF configured THEN alarms \cap placed ELSE {}
    IN  /\ ~cronRan
        /\ cronRan' = TRUE
        /\ placed \subseteq alarms
        /\ followupCalls' = [id \in RowIds |->
                      IF id \in called THEN Bump(followupCalls[id]) ELSE followupCalls[id]]
        /\ UNCHANGED <<rows, nextId, now, resetDue, adherence, subs, calls, ticks,
                       reminderCalls, pushes, interp, logged, reports, taken>>

followup_call ==
  \E configured \in BOOLEAN, placed \in SUBSET (DOMAIN rows), phase \in Phases :
    followup_call_with(configured, placed, phase)

\* --------------------------------------------------------------- push worker
\* the query of AlarmWorker.check_and_send_alarms
DueMedications(rs, current_time) ==
  {id \in DOMAIN rs : rs[id].time = current_time /\ rs[id].active}

\* send_push_notification tries every subscription on its own
WorkerDelivered(code_hash, out) ==
  \E s \in ActiveSubs(code_hash) : out[s] = "ok"

\* AlarmWorker.check_and_send_alarms with send_push_notification: a 410
\* answer deactivates the subscription
CheckAndSendAlarmsWith(out) ==
    LET due == DueMedications(rows, now)
        users == {rows[id].code_hash : id \in due}
    IN  /\ pushes' = [id \in RowIds |->
                        IF id \in due /\ WorkerDelivered(rows[id].code_hash, out)
                        THEN Bump(pushes[id]) ELSE pushes[id]]
        /\ subs' = [s \in DOMAIN subs |->
                        IF subs[s].code_hash \in users /\ subs[s].active /\ out[s] = "gone"
                        THEN [subs[s] EXCEPT !.active = FALSE] ELSE subs[s]]
        /\ UNCHANGED <<rows, nextId, now, resetDue, adherence, calls, ticks,
                       reminderCalls, followupCalls, aux>>

CheckAndSendAlarms ==
  \E out \in [SubIds -> PushOutcomes] : CheckAndSendAlarmsWith(out)

\* ------------------------------------------------------------ confirmations
AdherenceRecord(medication, scheduledTime, method, takenVia) ==
  [medication |-> medication,
   scheduledTime |-> scheduledTime,
   status |-> "taken",
   method |-> method,
   takenVia |-> takenVia]

\* Python's  lst[-n:]
LastN(lst, n) ==
  IF Len(lst) <= n THEN lst ELSE SubSeq(lst, Len(lst) - n + 1, Len(lst))

AppendAdherence(log, record) == LastN(Append(log, record), AdherenceWindow)

\* the rows the UPDATE of medication_twiml matches
SameMedication(rs, code_hash, med_name) ==
  {id \in DOMAIN rs : rs[id].code_hash = code_hash /\ rs[id].medication_name = med_name}

\* the UPDATE of medication_twiml after a spoken yes
MarkTaken(rs, code_hash, med_name) ==
  [id \in DOMAIN rs |->
     IF id \in SameMedication(rs, code_hash, med_name)
     THEN [rs[id] EXCEPT !.daily_status = "TAKEN"]
     ELSE rs[id]]

\* variant: everything but a no counts as a confirmation
ConfirmedUnlessNo(understood) == understood # "no"

\* the test that guards the adherence write of the voice handlers
Confirmed(understood) == understood = "yes"

\* variant: one more re-prompt before the call is given up
NextPromptLate(call) ==
  IF call.retry <= RetryLimit THEN [call EXCEPT !.retry = call.retry + 1] ELSE NoCall

\* an answer that is neither yes nor no: a new Gather with retry + 1 while
\* retry < 2, an empty response (the call ends) otherwise
NextPrompt(call) ==
  IF call.retry < RetryLimit THEN [call EXCEPT !.retry = call.retry + 1] ELSE NoCall

\* POST /api/twilio/twiml/medication?call_type=followup with a SpeechResult
MedicationTwimlOn(alarm, speech) ==
    LET call == calls[alarm]
        heard == TwimlUnderstand(speech)
    IN  /\ call # NoCall
        /\ IF Confirmed(heard)
           THEN /\ logged[call.codeHash] < MaxLog
                /\ ~Locked(SameMedication(rows, call.codeHash, call.medication))
                /\ adherence' = [adherence EXCEPT ![call.codeHash] =
                     AppendAdherence(@, AdherenceRecord(call.medication, call.time,
                                                        "phone_followup", "absent"))]
                /\ logged' = [logged EXCEPT ![call.codeHash] = @ + 1]
                /\ rows' = MarkTaken(rows, call.codeHash, call.medication)
                /\ calls' = [calls EXCEPT ![alarm] = NoCall]
           ELSE IF heard = "no"
           THEN /\ calls' = [calls EXCEPT ![alarm] = NoCall]
                /\ UNCHANGED <<rows, adherence, logged>>
           ELSE /\ calls' = [calls EXCEPT ![alarm] = NextPrompt(call)]
                /\ UNCHANGED <<rows, adherence, logged>>
        /\ UNCHANGED <<nextId, now, resetDue, subs, ticks, counters, interp, reports, taken, cronRan>>

MedicationTwiml ==
  \E alarm \in RowIds, speech \in Utterances : MedicationTwimlOn(alarm, speech)

\* the callee hangs up or stays silent: the Gather is the last verb
CallEnds ==
  \E alarm \in RowIds :
    /\ calls[alarm] # NoCall
    /\ calls' = [calls EXCEPT ![alarm] = NoCall]
    /\ UNCHANGED <<rows, nextId, now, resetDue, adherence, subs, ticks, counters, aux>>

\* POST /api/health/medication-taken (the push self-report), sent by the app
\* for one of the patient's doses
RecordMedicationTakenFor(id) ==
    LET code_hash == rows[id].code_hash
    IN  /\ id \in DOMAIN rows
        /\ logged[code_hash] < MaxLog
        /\ adherence' = [adherence EXCEPT ![code_hash] =
             AppendAdherence(@, AdherenceRecord(rows[id].medication_name, rows[id].time,
                                                "absent", "absent"))]
        /\ logged' = [logged EXCEPT ![code_hash] = @ + 1]
        /\ UNCHANGED <<rows, nextId, now, resetDue, subs, calls, ticks, counters, interp, reports, taken, cronRan>>

RecordMedicationTaken == \E id \in RowIds : RecordMedicationTakenFor(id)

\* record_medication_taken, statement by statement: get_patient_data reads the
\* profile on a connection of its own ...
RecordMedicationTakenRead(r) ==
  \E id \in DOMAIN rows :
    LET code_hash == rows[id].code_hash
        inflight == Cardinality({q \in Reqs : reports[q] # <<>>})
    IN  /\ reports[r] = <<>>
        /\ logged[code_hash] + inflight < MaxLog
        /\ reports' = [reports EXCEPT ![r] =
             <<[code_hash |-> code_hash,
                adherence_record |-> AdherenceRecord(rows[id].medication_name, rows[id].time,
                                                     "absent", "absent"),
                adherence_history |-> adherence[code_hash]]>>]
        /\ UNCHANGED <<rows, nextId, now, resetDue, adherence, subs, calls, ticks,
                       counters, interp, logged, taken, cronRan>>

\* ... and the UPDATE writes back the whole profile that was read, with the
\* new record appended
RecordMedicationTakenWrite(r) ==
  /\ reports[r] # <<>>
  /\ LET report == reports[r][1]
     IN  /\ adherence' = [adherence EXCEPT ![report.code_hash] =
              AppendAdherence(report.adherence_history, report.adherence_record)]
         /\ logged' = [logged EXCEPT ![report.code_hash] = @ + 1]
  /\ reports' = [reports EXCEPT ![r] = <<>>]
  /\ UNCHANGED <<rows, nextId, now, resetDue, subs, calls, ticks, counters, interp, taken, cronRan>>

\* handle_medication_callback of twilio_voice.py, called for the dose of row id
HandleMedicationCallbackOn(id, speech, reply) ==
    LET code_hash == rows[id].code_hash
        understood == Understood[speech][reply]
    IN  /\ id \in DOMAIN rows
        /\ interp' = understood
        /\ IF Confirmed(understood.understood)
           THEN /\ logged[code_hash] < MaxLog
                /\ adherence' = [adherence EXCEPT ![code_hash] =
                     AppendAdherence(@, AdherenceRecord(rows[id].medication_name, rows[id].time,
                                                        "absent", "twilio_voice_call"))]
                /\ logged' = [logged EXCEPT ![code_hash] = @ + 1]
           ELSE UNCHANGED <<adherence, logged>>
        /\ UNCHANGED <<rows, nextId, now, resetDue, subs, calls, ticks, counters, reports, taken, cronRan>>

HandleMedicationCallback ==
  \E id \in RowIds, speech \in Spoken, reply \in LlmReplies :
    HandleMedicationCallbackOn(id, speech, reply)

\* handle_followup_callback of twilio_voice.py, called for the dose of row id
HandleFollowupCallbackOn(id, speech, reply) ==
    LET code_hash == rows[id].code_hash
        understood == Understood[speech][reply]
    IN  /\ id \in DOMAIN rows
        /\ interp' = understood
        /\ IF Confirmed(understood.understood)
           THEN /\ logged[code_hash] < MaxLog
                /\ adherence' = [adherence EXCEPT ![code_hash] =
                     AppendAdherence(@, AdherenceRecord(rows[id].medication_name, rows[id].time,
                                                        "absent", "twilio_followup_call"))]
                /\ logged' = [logged EXCEPT ![code_hash] = @ + 1]
           ELSE UNCHANGED <<adherence, logged>>
        /\ UNCHANGED <<rows, nextId, now, resetDue, subs, calls, ticks, counters, reports, taken, cronRan>>

HandleFollowupCallback ==
  \E id \in RowIds, speech \in Spoken, reply \in LlmReplies :
    HandleFollowupCallbackOn(id, speech, reply)

\* POST /api/twilio/followup-voice with a SpeechResult, the TwiML url of the
\* call /api/alarms/followup places for the dose of row id: the log is cut
\* to its last 100 records
FollowupVoiceOn(id, speech) ==
    LET code_hash == rows[id].code_hash
        speech_result == Lower(speech)
    IN  /\ id \in DOMAIN rows
        /\ rows[id].last_called # NoStamp
        /\ speech_result # <<>>
        /\ Contains(speech_result, <<"y", "e", "s">>)
        /\ logged[code_hash] < MaxLog
        /\ adherence' = [adherence EXCEPT ![code_hash] =
             LastN(Append(@, AdherenceRecord(rows[id].medication_name, rows[id].time,
                                             "absent", "absent")),
                   FollowupVoiceWindow)]
        /\ logged' = [logged EXCEPT ![code_hash] = @ + 1]
        /\ UNCHANGED <<rows, nextId, now, resetDue, subs, calls, ticks, counters, interp, reports, taken, cronRan>>

FollowupVoice == \E id \in RowIds, speech \in Spoken : FollowupVoiceOn(id, speech)

\* POST /api/twilio/followup-response; inserted: the INSERT into
\* medication_taken succeeds (when it raises, nothing is committed)
FollowupResponseOn(id, speech, inserted) ==
    LET code_hash == rows[id].code_hash
        speech_result == Lower(speech)
    IN  /\ id \in DOMAIN rows
        /\ \/ Contains(speech_result, <<"y", "e", "s">>)
           \/ Contains(speech_result, <<"y", "e", "a", "h">>)
           \/ Contains(speech_result, <<"y", "e", "p">>)
        /\ inserted
        /\ logged[code_hash] < MaxLog
        /\ adherence' = [adherence EXCEPT ![code_hash] =
             AppendAdherence(@, AdherenceRecord(rows[id].medication_name, rows[id].time,
                                                "phone_followup", "absent"))]
        /\ logged' = [logged EXCEPT ![code_hash] = @ + 1]
        /\ taken' = taken \cup {<<code_hash, rows[id].medication_name>>}
        /\ UNCHANGED <<rows, nextId, now, resetDue, subs, calls, ticks, counters, interp, reports, cronRan>>

FollowupResponse ==
  \E id \in RowIds, speech \in Spoken, inserted \in BOOLEAN :
    FollowupResponseOn(id, speech, inserted)

\* the webhook with the whole vocabulary of the callee
MedicationTwimlSpoken ==
  \E alarm \in RowIds, speech \in Spoken \ {Silence} : MedicationTwimlOn(alarm, speech)

\* ------------------------------------------------------------ specifications
\* the scheduler, the voice webhook, deactivation and the reset on two doses
Next ==
  \/ AdvanceClock
  \/ ResetDaily
  \/ CheckAndCallAlarms
  \/ MedicationTwiml
  \/ CallEnds
  \/ SetAlarmActive

Spec == Init /\ [][Next]_vars

\* the routes that create and edit rows, on an empty table
InitStore == InitWith(<<>>)

NextStore ==
  \/ AddAlarm
  \/ UpdateAlarm
  \/ DeleteAlarm
  \/ UpdateMedication
  \/ ScheduleMedications

SpecStore == InitStore /\ [][NextStore]_vars

\* the scheduler and the push worker running side by side
NextPush ==
  \/ AdvanceClock
  \/ ResetDaily
  \/ CheckAndCallAlarms
  \/ CheckAndSendAlarms

SpecPush == Init /\ [][NextPush]_vars

\* the scheduler with the self-report route
NextReport ==
  \/ AdvanceClock
  \/ ResetDaily
  \/ CheckAndCallAlarms
  \/ MedicationTwiml
  \/ CallEnds
  \/ RecordMedicationTaken

SpecReport == Init /\ [][NextReport]_vars

\* one dose whose time is edited while the scheduler runs
OneRow == (1 :> NewRow("p1", "m1", 540, PhoneNumber["p1"]))

InitEdit == InitWith(OneRow)

NextEdit ==
  \/ AdvanceClock
  \/ ResetDaily
  \/ CheckAndCallAlarms
  \/ MedicationTwiml
  \/ CallEnds
  \/ RescheduleAlarm

SpecEdit == InitEdit /\ [][NextEdit]_vars

\* one invocation of the tick interleaved, statement by statement, with the
\* voice webhook (READ COMMITTED: the tick reads at its SELECTs, writes at
\* its UPDATEs and publishes at its commit)
NextRace ==
  \/ AdvanceClock
  \/ ResetDaily
  \/ TickScan("t1")
  \/ TickReminder("t1")
  \/ TickFollowup("t1")
  \/ TickCommit("t1")
  \/ MedicationTwiml
  \/ CallEnds

SpecRace == Init /\ [][NextRace]_vars

\* cancellation: deactivation and deletion while the scheduler runs, on the
\* two 09:00/09:10 doses of p1, on one dose each of two medications of p1,
\* and on one dose each of p1 and of p2 (who has no phone number)
TwoMedications ==
  (1 :> NewRow("p1", "m1", 540, PhoneNumber["p1"])) @@
  (2 :> NewRow("p1", "m2", 540, PhoneNumber["p1"]))

TwoPatients ==
  (1 :> NewRow("p1", "m1", 540, PhoneNumber["p1"])) @@
  (2 :> NewRow("p2", "m1", 540, PhoneNumber["p2"]))

InitCancel ==
  \E table \in {ScheduledRows, TwoMedications, TwoPatients} : InitWith(table)

NextCancel ==
  \/ AdvanceClock
  \/ ResetDaily
  \/ CheckAndCallAlarms
  \/ SetAlarmActive
  \/ DeleteMedication

SpecCancel == InitCancel /\ [][NextCancel]_vars

\* deactivate-all on tables whose rows have all been switched off one by one
\* (PUT /api/alarms/<id> with {"active": false})
SwitchedOff(table) == [id \in DOMAIN table |-> [table[id] EXCEPT !.active = FALSE]]

InitDeactivate ==
  \E table \in {ScheduledRows, TwoMedications, TwoPatients} : InitWith(SwitchedOff(table))

NextDeactivate ==
  \/ AdvanceClock
  \/ ResetDaily
  \/ CheckAndCallAlarms
  \/ DeactivateAllAlarms

SpecDeactivate == InitDeactivate /\ [][NextDeactivate]_vars

\* the voice handlers during the follow-up call of one 09:00 dose: the state
\* after the ticks of 09:00 and 09:10 placed their calls
InitVoice ==
  /\ rows = (1 :> MarkFollowup(MarkReminded(OneRow[1], 540)))
  /\ nextId = 2
  /\ now = 550
  /\ resetDue = FALSE
  /\ adherence = [p \in Patients |-> <<>>]
  /\ subs = [s \in SubIds |-> [code_hash |-> "p1", active |-> TRUE]]
  /\ calls = [id \in RowIds |-> IF id = 1 THEN FollowupCall("p1", "m1", 550) ELSE NoCall]
  /\ ticks = [t \in Ticks |-> IdleTick]
  /\ reminderCalls = [id \in RowIds |-> IF id = 1 THEN 1 ELSE 0]
  /\ followupCalls = [id \in RowIds |-> IF id = 1 THEN 1 ELSE 0]
  /\ pushes = [id \in RowIds |-> 0]
  /\ interp = NoAnswer
  /\ logged = [p \in Patients |-> 0]
  /\ reports = [r \in Reqs |-> <<>>]
  /\ taken = {}
  /\ cronRan = FALSE

NextVoice ==
  \/ CallEnds
  \/ MedicationTwimlSpoken
  \/ HandleMedicationCallback
  \/ HandleFollowupCallback

SpecVoice == InitVoice /\ [][NextVoice]_vars

\* every route that writes the adherence list, on a patient whose list
\* already holds the self-reports of earlier days
EarlierReports(n) == [i \in 1..n |-> AdherenceRecord("m1", i, "absent", "absent")]

EarlierLengths == {0, FollowupVoiceWindow, AdherenceWindow - 1}

InitLog ==
  /\ rows = (1 :> MarkFollowup(MarkReminded(OneRow[1], 540)))
  /\ nextId = 2
  /\ now = 550
  /\ resetDue = FALSE
  /\ \E n \in EarlierLengths :
       adherence = [p \in Patients |-> IF p = "p1" THEN EarlierReports(n) ELSE <<>>]
  /\ subs = [s \in SubIds |-> [code_hash |-> "p1", active |-> TRUE]]
  /\ calls = [id \in RowIds |-> IF id = 1 THEN FollowupCall("p1", "m1", 550) ELSE NoCall]
  /\ ticks = [t \in Ticks |-> IdleTick]
  /\ reminderCalls = [id \in RowIds |-> IF id = 1 THEN 1 ELSE 0]
  /\ followupCalls = [id \in RowIds |-> IF id = 1 THEN 1 ELSE 0]
  /\ pushes = [id \in RowIds |-> 0]
  /\ interp = NoAnswer
  /\ logged = [p \in Patients |-> 0]
  /\ reports = [r \in Reqs |-> <<>>]
  /\ taken = {}
  /\ cronRan = FALSE

NextLog ==
  \/ CallEnds
  \/ MedicationTwimlSpoken
  \/ RecordMedicationTaken
  \/ FollowupVoice
  \/ FollowupResponse
  \/ HandleMedicationCallback
  \/ HandleFollowupCallback

SpecLog == InitLog /\ [][NextLog]_vars

\* self-reports that overlap each other and the voice confirmation, while
\* the scheduler runs on one dose
NextConfirm ==
  \/ AdvanceClock
  \/ ResetDaily
  \/ CheckAndCallAlarms
  \/ CallEnds
  \/ MedicationTwiml
  \/ \E r \in Reqs : RecordMedicationTakenRead(r)
  \/ \E r \in Reqs : RecordMedicationTakenWrite(r)

SpecConfirm == InitEdit /\ [][NextConfirm]_vars

\* the tick, statement by statement, across midnight: one dose at 09:00, or
\* one dose at 23:55 whose follow-up minute is 00:05
LateRow == (1 :> NewRow("p1", "m1", 1435, PhoneNumber["p1"]))

InitLate == \E table \in {OneRow, LateRow} : InitWith(table)

NextLate ==
  \/ AdvanceClock
  \/ ResetDaily
  \/ TickScan("t1")
  \/ TickReminder("t1")
  \/ TickFollowup("t1")
  \/ TickCommit("t1")

SpecLate == InitLate /\ [][NextLate]_vars

\* the follow-up route, minute by minute, on the 09:00 dose once the tick of
\* 09:00 has placed its reminder call
InitFollowup ==
  /\ rows = (1 :> MarkReminded(OneRow[1], 540))
  /\ nextId = 2
  /\ now = 540
  /\ resetDue = FALSE
  /\ adherence = [p \in Patients |-> <<>>]
  /\ subs = [s \in SubIds |-> [code_hash |-> "p1", active |-> TRUE]]
  /\ calls = [id \in RowIds |-> NoCall]
  /\ ticks = [t \in Ticks |-> IdleTick]
  /\ reminderCalls = [id \in RowIds |-> IF id = 1 THEN 1 ELSE 0]
  /\ followupCalls = [id \in RowIds |-> 0]
  /\ pushes = [id \in RowIds |-> 0]
  /\ interp = NoAnswer
  /\ logged = [p \in Patients |-> 0]
  /\ reports = [r \in Reqs |-> <<>>]
  /\ taken = {}
  /\ cronRan = FALSE

NextFollowup ==
  \/ AdvanceMinute
  \/ followup_call
  \/ FollowupResponse
  \/ RecordMedicationTaken

SpecFollowup == InitFollowup /\ [][NextFollowup]_vars

\* one invocation of the tick, statement by statement, on a store that can
\* fail under it
NextAbort ==
  \/ AdvanceClock
  \/ ResetDaily
  \/ TickScan("t1")
  \/ TickReminder("t1")
  \/ TickFollowup("t1")
  \/ TickStoreFails("t1")
  \/ TickCommit("t1")

SpecAbort == InitCancel /\ [][NextAbort]_vars

\* two invocations of the tick that overlap, statement by statement
NextOverlap ==
  \/ AdvanceClock
  \/ ResetDaily
  \/ \E t \in Ticks : TickScan(t)
  \/ \E t \in Ticks : TickReminder(t)
  \/ \E t \in Ticks : TickFollowup(t)
  \/ \E t \in Ticks : TickCommit(t)

SpecOverlap == InitEdit /\ [][NextOverlap]_vars

\* ------------------------------------------------------------------ claims
Rank(status) ==
  CASE status = "PENDING" -> 0
    [] status = "REMINDED" -> 1
    [] status = "FOLLOWUP" -> 2
    [] status = "TAKEN" -> 3

Kept == DOMAIN rows \cap DOMAIN rows'

HasPhone(row) == row.phone_number # NULL /\ row.phone_number # ""

\* C1: between two midnight resets, whatever ticks run (the scheduler's and
\* the push worker's, several in one minute included), a dose row gets at
\* most one reminder call, at most one reminder push and at most one
\* follow-up call.
C1_AtMostOncePerDay ==
  \A id \in RowIds :
    reminderCalls[id] <= 1 /\ pushes[id] <= 1 /\ followupCalls[id] <= 1

\* C2: the tick's follow-up update never lands on a row that the
\* confirmed-taken update has already set to TAKEN: no step takes a row from
\* TAKEN to FOLLOWUP.
C2_TakenNotOverwritten ==
  [][\A id \in Kept :
       rows[id].daily_status = "TAKEN" => rows'[id].daily_status # "FOLLOWUP"]_vars

\* C3: a confirmation (push self-report or spoken yes) for a dose that is
\* REMINDED or FOLLOWUP appends one adherence record and leaves the dose TAKEN.
C3_ConfirmedIsTaken ==
  [][\A id \in DOMAIN rows :
       /\ rows[id].daily_status \in {"REMINDED", "FOLLOWUP"}
       /\ \/ RecordMedicationTakenFor(id)
          \/ /\ calls[id] # NoCall
             /\ calls[id].codeHash = rows[id].code_hash
             /\ calls[id].medication = rows[id].medication_name
             /\ MedicationTwimlOn(id, SayYes)
       => /\ rows'[id].daily_status = "TAKEN"
          /\ Len(adherence'[rows[id].code_hash]) = Len(adherence[rows[id].code_hash]) + 1]_vars

\* C4: in every state every row has followup_time = time + 10 minutes
\* (modulo 24 hours).
C4_FollowupTimeDerived ==
  \A id \in DOMAIN rows : rows[id].followup_time = FollowupOf(rows[id].time)

\* C5: except for the midnight reset, no step moves the daily_status of a
\* row to an earlier status in the order PENDING, REMINDED, FOLLOWUP, TAKEN.
C5_StatusMonotone ==
  [][\/ resetDue /\ ~resetDue'
     \/ \A id \in Kept :
          Rank(rows'[id].daily_status) >= Rank(rows[id].daily_status)]_vars

\* C6: no step takes a row from FOLLOWUP to REMINDED, and a scheduler tick
\* leaves a FOLLOWUP row in FOLLOWUP.
C6_FollowupNeverReminded ==
  [][\A id \in Kept :
       rows[id].daily_status = "FOLLOWUP"
       => /\ rows'[id].daily_status # "REMINDED"
          /\ CheckAndCallAlarms => rows'[id].daily_status = "FOLLOWUP"]_vars

C6_Witness ==
  /\ rows[1].daily_status = "FOLLOWUP"
  /\ rows[1].active
  /\ rows[1].time = now
  /\ reminderCalls[1] = 1
  /\ followupCalls[1] = 1

C8_ResetFrame ==
  [][resetDue /\ ~resetDue'
     => /\ DOMAIN rows' = DOMAIN rows
        /\ \A id \in DOMAIN rows :
             rows'[id] = [rows[id] EXCEPT !.daily_status = "PENDING"]
        /\ adherence' = adherence]_vars

C8_Witness ==
  /\ now = 0
  /\ ~resetDue
  /\ adherence["p1"] # <<>>
  /\ \A id \in DOMAIN rows : rows[id].daily_status = "PENDING"
  /\ rows[1].last_called # NoStamp
  /\ ~rows[2].active
  /\ rows[2].last_called # NoStamp

\* C9: for the active 09:00 dose with a phone number: a tick at 09:00 whose
\* call is placed takes it from PENDING to REMINDED, a tick at 09:10 whose
\* call is placed takes it from REMINDED to FOLLOWUP, and a "yes" in that
\* call makes it TAKEN and appends exactly one record, with method
\* "phone_followup".
C9_NineOClockDose ==
  [][\A id \in DOMAIN rows :
       rows[id].time = 540 /\ rows[id].active /\ HasPhone(rows[id])
       => /\ \A placed \in SUBSET RowIds, out \in [SubIds -> PushOutcomes] :
               CheckAndCallAlarmsWith(TRUE, placed, out) /\ placed = ReminderAlarms(rows, now) \cup FollowupAlarms(rows, now)
               => /\ now = 540 /\ rows[id].daily_status = "PENDING"
                     => rows'[id].daily_status = "REMINDED" /\ reminderCalls'[id] = 1
                  /\ now = 550 /\ rows[id].daily_status = "REMINDED"
                     => /\ rows'[id].daily_status = "FOLLOWUP"
                        /\ followupCalls'[id] = 1
                        /\ calls'[id] # NoCall
          /\ calls[id] # NoCall /\ MedicationTwimlOn(id, SayYes)
             => /\ rows'[id].daily_status = "TAKEN"
                /\ Len(adherence'["p1"]) = Len(adherence["p1"]) + 1
                /\ SubSeq(adherence'["p1"], 1, Len(adherence["p1"])) = adherence["p1"]
                /\ adherence'["p1"][Len(adherence'["p1"])].method = "phone_followup"
                /\ adherence'["p1"][Len(adherence'["p1"])].medication = rows[id].medication_name]_vars

C9_Witness ==
  /\ now = 550
  /\ rows[1].daily_status = "TAKEN"
  /\ rows[1].last_called = <<540>>
  /\ reminderCalls[1] = 1
  /\ followupCalls[1] = 1
  /\ Len(adherence["p1"]) = 1
  /\ adherence["p1"][1].method = "phone_followup"

\* C10: a scheduler tick fires no reminder, no push and no follow-up for an
\* inactive row and leaves the row as it is.
C10_InactiveUntouched ==
  [][CheckAndCallAlarms
     => \A id \in DOMAIN rows :
          ~rows[id].active
          => /\ rows'[id] = rows[id]
             /\ reminderCalls'[id] = reminderCalls[id]
             /\ followupCalls'[id] = followupCalls[id]
             /\ pushes'[id] = pushes[id]
             /\ calls'[id] = calls[id]]_vars

C10_Witness ==
  /\ now = 550
  /\ ~rows[1].active
  /\ rows[1].followup_time = now
  /\ rows[1].daily_status = "REMINDED"
  /\ followupCalls[1] = 0
  /\ rows[2].daily_status = "REMINDED"
  /\ rows[2].last_called = <<now>>

\* C11: POST /api/alarms/deactivate-all for a patient leaves every row of
\* that patient inactive and every row of the other patients as it was.
C11_DeactivateAll ==
  [][\A code_hash \in Patients :
       DeactivateAllAlarmsFor(code_hash)
       => /\ DOMAIN rows' = DOMAIN rows
          /\ \A id \in DOMAIN rows :
               IF rows[id].code_hash = code_hash
               THEN ~rows'[id].active
               ELSE rows'[id] = rows[id]]_vars

\* C12: a tick whose calls are placed, run at the scheduled minute of an
\* active PENDING row without a phone number, leaves that row REMINDED.
C12_NoPhoneStillReminded ==
  [][\A out \in [SubIds -> PushOutcomes] :
       CheckAndCallAlarmsWith(TRUE, ReminderAlarms(rows, now) \cup FollowupAlarms(rows, now), out)
       => \A id \in DOMAIN rows :
            /\ rows[id].active
            /\ rows[id].daily_status = "PENDING"
            /\ rows[id].time = now
            /\ ~HasPhone(rows[id])
            => rows'[id].daily_status = "REMINDED"]_vars

\* C13: deleting medication M of patient P removes exactly the rows of
\* (P, M) and leaves every other row as it was; a tick places no call and
\* sends no push for a row that is not in the table.
C13_DeleteMedication ==
  [][/\ \A code_hash \in Patients, medication_name \in Meds :
          DeleteMedicationFor(code_hash, medication_name)
          => /\ \A id \in DOMAIN rows' :
                  ~(rows'[id].code_hash = code_hash /\ rows'[id].medication_name = medication_name)
             /\ \A id \in DOMAIN rows :
                  ~(rows[id].code_hash = code_hash /\ rows[id].medication_name = medication_name)
                  => id \in DOMAIN rows' /\ rows'[id] = rows[id]
             /\ DOMAIN rows' \subseteq DOMAIN rows
     /\ CheckAndCallAlarms
          => \A id \in RowIds \ DOMAIN rows :
               /\ reminderCalls'[id] = reminderCalls[id]
               /\ followupCalls'[id] = followupCalls[id]
               /\ pushes'[id] = pushes[id]
               /\ calls'[id] = calls[id]]_vars

C13_Witness ==
  /\ DOMAIN rows = {2}
  /\ rows[2].medication_name = "m2"
  /\ rows[2].daily_status = "REMINDED"
  /\ rows[2].last_called = <<540>>
  /\ now = 540
  /\ reminderCalls[1] = 0
  /\ reminderCalls[2] = 1

\* the utterances that contain a keyword of a list, in any case
AffirmativeSpoken == {speech \in Spoken : AnyContained(yes_keywords, Lower(speech))}

NegativeSpoken == {speech \in Spoken : AnyContained(no_keywords, Lower(speech))}

AffirmativeHeard == {speech \in Spoken : AnyContained(yes_words, Lower(speech))}

NegativeHeard == {speech \in Spoken : AnyToken(no_words, Lower(speech))}

\* C14: a spoken answer that the handler classifies as declined or unclear
\* changes no row and no adherence list (medication_twiml and the two
\* callbacks of twilio_voice.py, which are the steps that leave calls alone).
C14_UnclearNeverTaken ==
  [][/\ \A alarm \in DOMAIN rows, speech \in Spoken \ {Silence} :
          /\ calls'[alarm] # calls[alarm]
          /\ TwimlUnderstand(speech) \in {"no", "unclear"}
          /\ MedicationTwimlOn(alarm, speech)
          => rows' = rows /\ adherence' = adherence
     /\ calls' = calls /\ interp'.understood \in {"no", "unclear"}
          => rows' = rows /\ adherence' = adherence]_vars

C14_Witness ==
  /\ calls[1] # NoCall
  /\ calls[1].retry = 2
  /\ interp = [understood |-> "no", asked |-> TRUE]
  /\ rows[1].daily_status = "FOLLOWUP"
  /\ adherence["p1"] = <<>>

\* C15: in the follow-up call an unclear answer is followed by a re-prompt
\* while fewer than 2 re-prompts were made and ends the call otherwise, and
\* changes no row; every answer ends the call or uses up one re-prompt, so
\* a call takes at most three answers.
C15_BoundedReprompts ==
  [][\A alarm \in DOMAIN rows :
       calls[alarm] # NoCall
       => /\ calls[alarm].retry <= 2
          /\ \A speech \in Spoken \ {Silence} :
               calls'[alarm] # calls[alarm] /\ MedicationTwimlOn(alarm, speech)
               => /\ \/ calls'[alarm] = NoCall
                     \/ calls'[alarm] = [calls[alarm] EXCEPT !.retry = calls[alarm].retry + 1]
                  /\ TwimlUnderstand(speech) = "unclear"
                     => /\ calls[alarm].retry = 2 => calls'[alarm] = NoCall
                        /\ calls[alarm].retry < 2 => calls'[alarm] # NoCall
                        /\ rows' = rows
                        /\ adherence' = adherence]_vars

C15_Witness ==
  /\ calls[1] # NoCall
  /\ calls[1].retry = 2
  /\ rows[1].daily_status = "FOLLOWUP"
  /\ followupCalls[1] = 1
  /\ interp = NoAnswer
  /\ adherence["p1"] = <<>>

\* C16: an utterance that contains an affirmative keyword (in any case) is
\* classified yes whatever else it contains, and one that contains a
\* negative keyword and no affirmative one is classified no; neither asks
\* Gemini.  understand_response matches both lists by substring;
\* medication_twiml matches its affirmative list by substring and its
\* negative list by word.
C16_AffirmativeFirst ==
  [][/\ \A id \in DOMAIN rows, reply \in LlmReplies :
          /\ \A speech \in AffirmativeSpoken :
               \/ interp' = [understood |-> "yes", asked |-> FALSE]
               \/ ~HandleMedicationCallbackOn(id, speech, reply)
                  /\ ~HandleFollowupCallbackOn(id, speech, reply)
          /\ \A speech \in NegativeSpoken \ AffirmativeSpoken :
               \/ interp' = [understood |-> "no", asked |-> FALSE]
               \/ ~HandleMedicationCallbackOn(id, speech, reply)
                  /\ ~HandleFollowupCallbackOn(id, speech, reply)
     /\ \A alarm \in DOMAIN rows :
          calls'[alarm] # calls[alarm]
          => /\ \A speech \in AffirmativeHeard :
                  MedicationTwimlOn(alarm, speech)
                  => /\ rows'[alarm].daily_status = "TAKEN"
                     /\ Len(adherence'[calls[alarm].codeHash])
                          = Len(adherence[calls[alarm].codeHash]) + 1
             /\ \A speech \in NegativeHeard \ AffirmativeHeard :
                  MedicationTwimlOn(alarm, speech)
                  => /\ calls'[alarm] = NoCall
                     /\ rows' = rows
                     /\ adherence' = adherence]_vars

C16_Witness ==
  /\ interp = [understood |-> "yes", asked |-> FALSE]
  /\ Len(adherence["p1"]) = 2
  /\ adherence["p1"][1].method = "phone_followup"
  /\ adherence["p1"][2].takenVia = "twilio_followup_call"
  /\ rows[1].daily_status = "TAKEN"

C18_AppendAndTrim ==
  [][\A p \in Patients :
       adherence'[p] # adherence[p]
       => LET old == adherence[p]
              new == adherence'[p]
              kept == Len(new) - 1
          IN  /\ Len(new) = IF Len(old) < AdherenceWindow THEN Len(old) + 1 ELSE AdherenceWindow
              /\ \A i \in 1..kept : new[i] = old[Len(old) - kept + i]]_vars

\* C19: when invocations of the tick overlap, a row still gets no second
\* reminder call and no second follow-up call before the next reset.
C19_OverlappingTicks ==
  [][\A id \in RowIds :
       /\ reminderCalls'[id] > reminderCalls[id] => reminderCalls[id] = 0
       /\ followupCalls'[id] > followupCalls[id] => followupCalls[id] = 0]_vars

\* C20: no two rows have the same patient, medication name and time.
C20_OneRowPerDose ==
  \A id \in DOMAIN rows, other \in DOMAIN rows :
    /\ rows[id].code_hash = rows[other].code_hash
    /\ rows[id].medication_name = rows[other].medication_name
    /\ rows[id].time = rows[other].time
    => id = other

\* C21: within one tick, a call that cannot be placed or a push that cannot
\* be sent for one due row does not end the tick: the loop goes on with the
\* other due rows, a row whose call is placed has its UPDATE in the
\* transaction, and the commit at the end of the tick writes every one of them.
C21_FailureIsPerRow ==
  [][\A t \in Ticks :
       LET tick == ticks[t]
           after == ticks'[t]
       IN  (tick.pc = "run" /\ tick.store = "up" /\ after.store = "up") =>
             /\ after.pc = "run" =>
                  /\ after.reminder_alarms # tick.reminder_alarms =>
                       after.reminder_alarms = Tail(tick.reminder_alarms)
                  /\ after.followup_alarms # tick.followup_alarms =>
                       after.followup_alarms = Tail(tick.followup_alarms)
                  /\ \A id \in DOMAIN rows :
                       /\ reminderCalls'[id] > reminderCalls[id] =>
                            id \in DOMAIN after.writes /\ after.writes[id] = "REMINDED"
                       /\ followupCalls'[id] > followupCalls[id] =>
                            id \in DOMAIN after.writes /\ after.writes[id] = "FOLLOWUP"
                       /\ id \in DOMAIN tick.writes =>
                            id \in DOMAIN after.writes /\ after.writes[id] = tick.writes[id]
             /\ after.pc = "idle" =>
                  /\ tick.reminder_alarms = <<>>
                  /\ tick.followup_alarms = <<>>
                  /\ \A id \in DOMAIN tick.writes :
                       rows'[id].daily_status = tick.writes[id]]_vars

\* two doses due in the same minute: the call of the first failed and no push
\* of the second arrived, the second is REMINDED all the same
C21_Witness ==
  /\ DOMAIN rows = {1, 2}
  /\ now = 540
  /\ ticks["t1"].pc = "idle"
  /\ rows[1].active /\ rows[1].time = 540 /\ HasPhone(rows[1])
  /\ rows[1].daily_status = "PENDING" /\ reminderCalls[1] = 0
  /\ rows[2].daily_status = "REMINDED" /\ rows[2].last_called = <<540>>
  /\ reminderCalls[2] = 1 /\ pushes[2] = 0

\* C22: when the call of a due row cannot be placed, or the push for it
\* reaches none of the patient's subscriptions, the tick leaves the row's
\* daily_status and last_called as they were.
C22_FailedSendKeepsStatus ==
  [][\A placed \in SUBSET (DOMAIN rows), out \in [SubIds -> PushOutcomes] :
       CheckAndCallAlarmsWith(TRUE, placed, out) =>
         \A id \in ReminderAlarms(rows, now) :
           (\/ id \notin placed
            \/ /\ ActiveSubs(rows[id].code_hash) # {}
               /\ \A s \in ActiveSubs(rows[id].code_hash) : out[s] # "ok")
           => /\ rows'[id].daily_status = rows[id].daily_status
              /\ rows'[id].last_called = rows[id].last_called]_vars

\* C23: a push send tries every active subscription of the patient: when some
\* subscription accepts the message the push is delivered whatever the others
\* answered, and a subscription whose endpoint answers 410 (gone) is marked
\* inactive while the others stay active.  Stated for the push of the
\* scheduler tick and for the push of the worker.
C23_PushEverySubscription ==
  [][\A out \in [SubIds -> PushOutcomes] :
       /\ \A placed \in SUBSET (DOMAIN rows) :
            CheckAndCallAlarmsWith(TRUE, placed, out) =>
              \A id \in ReminderAlarms(rows, now) \cap placed :
                /\ (\E s \in ActiveSubs(rows[id].code_hash) : out[s] = "ok")
                   => pushes'[id] = Bump(pushes[id])
                /\ \A s \in ActiveSubs(rows[id].code_hash) :
                     subs'[s].active <=> out[s] # "gone"
       /\ CheckAndSendAlarmsWith(out) =>
            \A id \in DueMedications(rows, now) :
              /\ (\E s \in ActiveSubs(rows[id].code_hash) : out[s] = "ok")
                 => pushes'[id] = Bump(pushes[id])
              /\ \A s \in ActiveSubs(rows[id].code_hash) :
                   subs'[s].active <=> out[s] # "gone"]_vars

\* C24: when the store fails while a tick runs, the tick ends without partial
\* damage: at the end of an invocation no row for which that invocation
\* placed a call still has its pre-call daily_status, so the next tick cannot
\* place the same call again.
C24_StoreFailureIsClean ==
  [][\A t \in Ticks :
       (ticks[t].pc = "run" /\ ticks'[t].pc = "idle") =>
         \A id \in DOMAIN ticks[t].called \cap DOMAIN rows' :
           /\ ticks[t].called[id] = "REMINDED" => rows'[id].daily_status # "PENDING"
           /\ ticks[t].called[id] = "FOLLOWUP" => rows'[id].daily_status # "REMINDED"]_vars

\* C25: the ticks match the exact minute only.  Outside its scheduled minute
\* a dose gets no reminder (call or push) and a PENDING dose stays PENDING;
\* outside its follow-up minute a dose gets no follow-up call and a REMINDED
\* dose stays REMINDED until the midnight reset: a missed minute is never
\* caught up.
C25_NoCatchUp ==
  [][\A id \in DOMAIN rows :
       /\ rows[id].time # now =>
            /\ reminderCalls'[id] <= reminderCalls[id]
            /\ pushes'[id] <= pushes[id]
            /\ rows[id].daily_status = "PENDING" => rows'[id] = rows[id]
       /\ rows[id].followup_time # now =>
            /\ followupCalls'[id] <= followupCalls[id]
            /\ rows[id].daily_status = "REMINDED" =>
                 \/ rows'[id] = rows[id]
                 \/ resetDue /\ rows'[id] = [rows[id] EXCEPT !.daily_status = "PENDING"]]_vars

\* no tick ran at 09:00; the tick of 09:10 reminded the second dose and left
\* the first one PENDING and uncalled
C25_Witness ==
  /\ now = 550
  /\ rows[1].active /\ rows[1].time = 540 /\ HasPhone(rows[1])
  /\ rows[1].daily_status = "PENDING"
  /\ reminderCalls[1] = 0 /\ pushes[1] = 0 /\ followupCalls[1] = 0
  /\ rows[2].daily_status = "REMINDED" /\ rows[2].last_called = <<550>>

\* C26: a voice confirmation ("yes" in the follow-up call of one dose) sets
\* TAKEN on the row the call was about only: every other row, the patient's
\* rows of the same medication at another time included, keeps its status.
C26_TakenOnlyTheCalledDose ==
  [][\A alarm \in DOMAIN rows :
       (calls[alarm] # NoCall /\ MedicationTwimlOn(alarm, SayYes)) =>
         \A id \in DOMAIN rows \ {alarm} :
           rows'[id].daily_status = rows[id].daily_status]_vars

\* C27: two confirmed-taken events of one patient that overlap (each reads
\* the adherence log, appends its record and writes the whole log back) both
\* leave their record: the log holds as many records as were written.
C27_BothRecordsKept ==
  \A p \in Patients : Len(adherence[p]) = logged[p]

\* C28: in a tick the push for a due PENDING row goes out only after its
\* reminder call was placed: when the Twilio variables are missing or the
\* call fails there is no push, the row stays PENDING and last_called is
\* not set.
C28_PushOnlyAfterCall ==
  [][\A configured \in BOOLEAN, placed \in SUBSET (DOMAIN rows),
        out \in [SubIds -> PushOutcomes] :
       CheckAndCallAlarmsWith(configured, placed, out) =>
         \A id \in ReminderAlarms(rows, now) :
           /\ pushes'[id] # pushes[id] =>
                /\ configured /\ id \in placed
                /\ reminderCalls'[id] = Bump(reminderCalls[id])
           /\ (~configured \/ id \notin placed) =>
                /\ pushes'[id] = pushes[id]
                /\ reminderCalls'[id] = reminderCalls[id]
                /\ rows'[id] = rows[id]]_vars

\* two doses due at 09:00: the call of the first failed, so it has no push and
\* is PENDING with no last_called; the second was called and pushed
C28_Witness ==
  /\ DOMAIN rows = {1, 2}
  /\ now = 540
  /\ rows[1].active /\ rows[1].time = 540 /\ HasPhone(rows[1])
  /\ rows[1].daily_status = "PENDING" /\ rows[1].last_called = NoStamp
  /\ reminderCalls[1] = 0 /\ pushes[1] = 0
  /\ rows[2].daily_status = "REMINDED" /\ reminderCalls[2] = 1 /\ pushes[2] = 1

\* C29: a dose scheduled in the last ten minutes of the day (its
\* followup_time wraps past midnight) whose reminder call was placed at its
\* scheduled minute and which was not confirmed is selected for its follow-up
\* call by the tick that runs in its follow-up minute, the midnight reset in
\* between notwithstanding.
C29_FollowupAcrossMidnight ==
  [][\A t \in Ticks :
       (ticks[t].pc = "idle" /\ ticks'[t].pc = "run") =>
         \A id \in DOMAIN rows :
           (/\ rows[id].followup_time < rows[id].time
            /\ rows[id].followup_time = now
            /\ rows[id].active /\ HasPhone(rows[id])
            /\ rows[id].last_called = <<rows[id].time>>
            /\ rows[id].daily_status # "TAKEN")
           => \E k \in 1..Len(ticks'[t].followup_alarms) :
                ticks'[t].followup_alarms[k].id = id]_vars

\* C30: the follow-up route, invoked once per minute, places at most one
\* follow-up call for a dose, only for a dose that was reminded, and none for
\* a dose that has been confirmed taken today.
C30_OneFollowupPerDose ==
  [][\A configured \in BOOLEAN, placed \in SUBSET (DOMAIN rows), phase \in Phases :
       followup_call_with(configured, placed, phase) =>
         \A id \in DOMAIN rows :
           followupCalls'[id] # followupCalls[id] =>
             /\ followupCalls[id] = 0
             /\ rows[id].last_called # NoStamp
             /\ rows[id].daily_status # "TAKEN"
             /\ <<rows[id].code_hash, rows[id].medication_name>> \notin taken]_vars

====
